---- MODULE Spec2Model ----
(***************************************************************************)
(* A model of the logic core of robojules: the render-command merge        *)
(* (cleanup_commands), the tree differ (calculate_folder_diff and          *)
(* unflatten_tree), the asar decoder (parse_asar), the highlighting pass   *)
(* (do_syntax_highlighting), the structural pass (parse_diff) and the      *)
(* file differ (calculate_file_diff).                                      *)
(*                                                                         *)
(* Each component is a state machine of its own with its own              *)
(* specification (SpecCleanup, SpecTree, SpecAsar, SpecHighlight,          *)
(* SpecStructural, SpecFileDiff); the variables of the components a        *)
(* specification does not run stay at their idle values.                   *)
(***************************************************************************)
EXTENDS Integers, Sequences, FiniteSets, TLC

VARIABLES
    \* cleanup_commands (diff.rs 388-421)
    src,            \* the text, a sequence of characters
    events,         \* raw_commands as the caller passed it
    raw_commands,   \* raw_commands, sorted in place by the function
    new_commands,   \* the output being built
    pos,            \* the sweep cursor
    iter,           \* index of the next element of raw_commands.iter()
    cpc,            \* position in cleanup_commands
    \* calculate_folder_diff (diff.rs 174-201)
    old_tree,       \* get_dir_tree(old_dir): path -> digest
    new_tree,       \* get_dir_tree(new_dir): path -> digest
    tree,           \* the flat classification: path -> FileState
    file_tree,      \* what unflatten_tree returned
    tpc,            \* position in calculate_folder_diff
    \* parse_asar (asar.rs 28-119)
    stream_len,         \* length in bytes of the stream behind the reader
    header_string_size, \* AsarHeader::header_string_size, as stored
    actual_string_size, \* AsarHeader::actual_string_size, as stored
    json,               \* what the JSON bytes deserialize to, or Malformed
    rpos,               \* the reader's stream position
    header_json,        \* AsarHeader::header_json
    base,               \* walk_tree's base
    walk_stack,         \* the pending walk_tree calls, innermost first
    output,             \* file_tree_reader's output map
    asar_result,        \* how parse_asar ended
    returned,           \* the FileTree the caller of parse_asar holds
    apc,                \* position in parse_asar
    \* do_syntax_highlighting and LinesWithEndings (diff.rs 280-386)
    hl_src,         \* do_syntax_highlighting's src
    extension,      \* the extension handed to the passes
    lines,          \* the LinesWithEndings iterator: input and consumed
    item,           \* the (line, offset) of the current loop iteration
    range_start,    \* where in the line the next token's range starts
    last,           \* last_bold, last_italic, last_underline, last_color
    commands,       \* the Vec the pass pushes its events to
    yielded,        \* every (line, offset) the iterator has yielded
    tokens,         \* every (start, style) the pass has processed
    hpc,            \* position in do_syntax_highlighting
    \* parse_diff (diff.rs 232-246)
    hunk,           \* the byte ranges of the entries of a hunk, in order
    \* calculate_file_diff (diff.rs 423-504)
    old_file,       \* what lies at the old path
    new_file,       \* what lies at the new path
    new_extension,  \* new.extension()
    inner,          \* old_commands and new_commands of the inner function
    failed,         \* the passes that returned Err
    file_diff,      \* the FileDiff built for the caller
    fd_result,      \* how calculate_file_diff ended
    fpc,            \* position in calculate_file_diff
    \* parse_extensions_from_log (pr.rs 17-62)
    log,            \* the lines of the log
    line_no,        \* the number of the line the loop is at
    ext_id,         \* Option<String>
    ext_repository, \* Option<String>
    ext_old_commit, \* Option<String>
    extensions,     \* the Vec<ModifiedExtension> being built
    pushed_at,      \* for each pushed extension, the number of its line
    log_result,     \* how parse_extensions_from_log ended
    lpc,            \* position in parse_extensions_from_log
    \* the UI and the logic thread (ui/mod.rs, ui/state.rs, logic/mod.rs)
    state,          \* App::state, the AppState
    logic_rx,       \* the commands in the channel main_tx -> logic_rx
    main_rx,        \* the responses in the channel logic_tx -> main_rx
    thread,         \* the logic thread: where it is and the command it runs
    ui_alive,       \* the UI thread has not panicked
    sent,           \* the kind of every command sent, in sending order
    handled         \* every response handle_messages has taken, in order

cleanupVars == <<src, events, raw_commands, new_commands, pos, iter, cpc>>
treeVars == <<old_tree, new_tree, tree, file_tree, tpc>>

asarVars == <<stream_len, header_string_size, actual_string_size, json, rpos,
              header_json, base, walk_stack, output, asar_result, returned, apc>>

highlightVars == <<hl_src, extension, lines, item, range_start, last, commands,
                   yielded, tokens, hpc>>

fileDiffVars == <<old_file, new_file, new_extension, inner, failed, file_diff,
                  fd_result, fpc>>

logVars == <<log, line_no, ext_id, ext_repository, ext_old_commit, extensions,
             pushed_at, log_result, lpc>>

appVars == <<state, logic_rx, main_rx, thread, ui_alive, sent, handled>>

vars == <<cleanupVars, treeVars, asarVars, highlightVars, hunk, fileDiffVars,
          logVars, appVars>>

\* what the actions of one component leave alone
notCleanup == <<treeVars, asarVars, highlightVars, hunk, fileDiffVars, logVars, appVars>>
notTree == <<cleanupVars, asarVars, highlightVars, hunk, fileDiffVars, logVars, appVars>>
notAsar == <<cleanupVars, treeVars, highlightVars, hunk, fileDiffVars, logVars, appVars>>
notHighlight == <<cleanupVars, treeVars, asarVars, hunk, fileDiffVars, logVars, appVars>>
notFileDiff == <<treeVars, asarVars, hunk, logVars, appVars>>
notLog == <<cleanupVars, treeVars, asarVars, highlightVars, hunk, fileDiffVars,
           appVars>>
notApp == <<cleanupVars, treeVars, asarVars, highlightVars, hunk, fileDiffVars,
           logVars>>

----------------------------------------------------------------------------
(* Bounds *)

MaxTextLen == 2     \* characters in a text
MaxEvents == 2      \* events handed to cleanup_commands
MaxFiles == 2       \* paths in the two snapshots of a folder diff together
MaxAsarFiles == 2   \* File entries in an archive header
MaxSize == 2        \* the size of a non-empty archive File entry
U64Max == 63        \* stands for u64::MAX = usize::MAX: sums wrap above it

----------------------------------------------------------------------------
(* Text: a str is a sequence of characters; "a" and "b" encode to one     *)
(* UTF-8 byte, "E" stands for a character that encodes to two bytes.       *)

Chars == {"a", "E"}

Utf8Len(c) == IF c = "E" THEN 2 ELSE 1

\* the UTF-8 encoding of a character: its bytes, each tagged with its index
Utf8Bytes(c) == [k \in 1..Utf8Len(c) |-> <<c, k>>]

RECURSIVE StrBytes(_)
\* str::as_bytes
StrBytes(s) == IF s = <<>> THEN <<>> ELSE Utf8Bytes(Head(s)) \o StrBytes(Tail(s))

\* str::len: the length in bytes
StrLen(s) == Len(StrBytes(s))

RECURSIVE ByteIndexOfChar(_, _)
\* the byte index at which character number ci (0-based) of s starts
ByteIndexOfChar(s, ci) ==
    IF ci = 0 THEN 0 ELSE Utf8Len(Head(s)) + ByteIndexOfChar(Tail(s), ci - 1)

\* egui::TextBuffer::byte_index_from_char_index: the byte index of character
\* number char_index, or s.len() when s has no such character
ByteIndexFromCharIndex(s, char_index) ==
    IF char_index < Len(s) THEN ByteIndexOfChar(s, char_index) ELSE StrLen(s)

\* the characters of s that start at byte indices in [start_byte, end_byte)
ByteSlice(s, start_byte, end_byte) ==
    LET keep == {i \in 1..Len(s) :
                    /\ ByteIndexOfChar(s, i - 1) >= start_byte
                    /\ ByteIndexOfChar(s, i - 1) < end_byte}
    IN  [j \in 1..Cardinality(keep) |->
            s[CHOOSE i \in keep : Cardinality({k \in keep : k < i}) = j - 1]]

\* a char_range that leaves out the last character of the range
CharRangeShort(s, start, end) ==
    ByteSlice(s, ByteIndexFromCharIndex(s, start),
              ByteIndexFromCharIndex(s, IF end > start THEN end - 1 ELSE end))

\* egui::TextBuffer::char_range(start..end): both ends are CHARACTER indices,
\* converted to byte indices before slicing
CharRange(s, start, end) ==
    ByteSlice(s, ByteIndexFromCharIndex(s, start), ByteIndexFromCharIndex(s, end))

----------------------------------------------------------------------------
(* DiffRenderFragment(offset, DiffRenderCommand)                           *)

EventKinds == {"SetHighlight", "SetBold"}

Event(o, k, v) == [offset |-> o, kind |-> k, flag |-> v, text |-> <<>>]
TextFragment(o, s) == [offset |-> o, kind |-> "Text", flag |-> FALSE, text |-> s]

RECURSIVE InsertSorted(_, _)
\* insert f after every element whose offset is <= f.offset
InsertSorted(sorted, f) ==
    IF sorted = <<>> THEN <<f>>
    ELSE IF Head(sorted).offset <= f.offset
         THEN <<Head(sorted)>> \o InsertSorted(Tail(sorted), f)
         ELSE <<f>> \o sorted

RECURSIVE InsertSortedTiesFirst(_, _)
InsertSortedTiesFirst(sorted, f) ==
    IF sorted = <<>> THEN <<f>>
    ELSE IF Head(sorted).offset < f.offset
         THEN <<Head(sorted)>> \o InsertSortedTiesFirst(Tail(sorted), f)
         ELSE <<f>> \o sorted

RECURSIVE SortUnstable(_)
\* a sort by offset that does not keep equal offsets in their input order
SortUnstable(cmds) ==
    IF cmds = <<>> THEN <<>>
    ELSE InsertSortedTiesFirst(SortUnstable(SubSeq(cmds, 1, Len(cmds) - 1)),
                               cmds[Len(cmds)])

RECURSIVE SortByOffset(_)
\* raw_commands.sort_by(|a, b| a.0.cmp(&b.0)): slice::sort_by is stable
SortByOffset(cmds) ==
    IF cmds = <<>> THEN <<>>
    ELSE InsertSorted(SortByOffset(SubSeq(cmds, 1, Len(cmds) - 1)),
                      cmds[Len(cmds)])

----------------------------------------------------------------------------
(* cleanup_commands                                                        *)

Texts == UNION {[1..n -> Chars] : n \in 0..MaxTextLen}

EventsOf(t) ==
    LET E == {Event(o, k, v) : o \in 0..StrLen(t), k \in EventKinds, v \in {TRUE}}
             \cup {Event(o, "SetHighlight", FALSE) : o \in 0..StrLen(t)}
    IN  UNION {[1..n -> E] : n \in 0..MaxEvents}

\* the component is not running
IdleCleanup ==
    /\ src = <<>>
    /\ events = <<>>
    /\ raw_commands = <<>>
    /\ new_commands = <<>>
    /\ pos = 0
    /\ iter = 1
    /\ cpc = "idle"

IdleTree ==
    /\ old_tree = <<>>
    /\ new_tree = <<>>
    /\ tree = <<>>
    /\ file_tree = <<>>
    /\ tpc = "idle"

\* AsarEntry, with the fields of both variants
Entry(k, o, sz, f) == [kind |-> k, offset |-> o, size |-> sz, files |-> f]
NoEntry == Entry("None", <<>>, 0, <<>>)

IdleAsar ==
    /\ stream_len = 0
    /\ header_string_size = 0
    /\ actual_string_size = 0
    /\ json = NoEntry
    /\ rpos = 0
    /\ header_json = NoEntry
    /\ base = 0
    /\ walk_stack = <<>>
    /\ output = <<>>
    /\ asar_result = "none"
    /\ returned = [some |-> FALSE, val |-> <<>>]
    /\ apc = "idle"

\* the default style: last_* as declared in lines 331-334
Transparent == "transparent"
Style(b, i, u, c) == [bold |-> b, italic |-> i, underline |-> u, color |-> c]
DefaultStyle == Style(FALSE, FALSE, FALSE, Transparent)

IdleHighlight ==
    /\ hl_src = <<>>
    /\ extension = <<>>
    /\ lines = [input |-> <<>>, consumed |-> 0]
    /\ item = [line |-> <<>>, offset |-> 0]
    /\ range_start = 0
    /\ last = DefaultStyle
    /\ commands = <<>>
    /\ yielded = <<>>
    /\ tokens = <<>>
    /\ hpc = "idle"

IdleStructural == hunk = <<>>

\* what lies at a path: nothing, or a file that read_to_string can or
\* cannot read, with its text
File(e, r, t) == [exists |-> e, readable |-> r, text |-> t]
Missing == File(FALSE, FALSE, <<>>)

IdleFileDiff ==
    /\ old_file = Missing
    /\ new_file = Missing
    /\ new_extension = [some |-> FALSE, val |-> <<>>]
    /\ inner = [old_commands |-> <<>>, new_commands |-> <<>>]
    /\ failed = {}
    /\ file_diff = [old |-> <<>>, new |-> <<>>]
    /\ fd_result = "none"
    /\ fpc = "idle"

IdleLog ==
    /\ log = <<>>
    /\ line_no = 1
    /\ ext_id = [some |-> FALSE, val |-> <<>>]
    /\ ext_repository = [some |-> FALSE, val |-> <<>>]
    /\ ext_old_commit = [some |-> FALSE, val |-> <<>>]
    /\ extensions = <<>>
    /\ pushed_at = <<>>
    /\ log_result = "none"
    /\ lpc = "idle"

\* AsyncState<T>: value, working, and whether error is Some
AsyncState(v, w, e) == [value |-> v, working |-> w, error |-> e]

\* AsyncState::default and AppState::default
DefaultAsyncState == AsyncState([some |-> FALSE, val |-> <<>>], FALSE, FALSE)
DefaultAppState ==
    [pull_request_id |-> 0,
     pull_request_update |-> DefaultAsyncState,
     selected_extension |-> [some |-> FALSE, val |-> <<>>],
     diffed_extension |-> DefaultAsyncState,
     diff |-> [some |-> FALSE, val |-> <<>>]]

\* a LogicCommand, numbered in sending order
Command(k, n) == [kind |-> k, seq |-> n]
NoCommand == Command("None", 0)

\* the application was not started
IdleApp ==
    /\ state = DefaultAppState
    /\ logic_rx = <<>>
    /\ main_rx = <<>>
    /\ thread = [pc |-> "idle", command |-> NoCommand]
    /\ ui_alive = FALSE
    /\ sent = <<>>
    /\ handled = <<>>

IdleOthers == IdleHighlight /\ IdleStructural /\ IdleFileDiff /\ IdleLog /\ IdleApp

InitCleanup ==
    /\ IdleTree
    /\ IdleAsar
    /\ IdleOthers
    /\ src \in Texts
    /\ events \in EventsOf(src)
    /\ raw_commands = events
    /\ new_commands = <<>>
    /\ pos = 0
    /\ iter = 1
    /\ cpc = "sort"

\* line 396
CleanupSort ==
    /\ cpc = "sort"
    /\ raw_commands' = SortByOffset(raw_commands)
    /\ cpc' = "sweep"
    /\ UNCHANGED <<src, events, new_commands, pos, iter, notCleanup>>

\* the Text fragment pushed before an event that lies beyond pos (400-406)
TextBefore(fragment) ==
    IF fragment.offset > pos
    THEN <<TextFragment(pos, CharRange(src, pos, fragment.offset))>>
    ELSE <<>>

\* one iteration of the while loop, lines 398-410
CleanupSweep ==
    /\ cpc = "sweep"
    /\ iter <= Len(raw_commands)
    /\ LET fragment == raw_commands[iter]
       IN  /\ new_commands' = new_commands \o TextBefore(fragment) \o <<fragment>>
           /\ pos' = IF fragment.offset > pos THEN fragment.offset ELSE pos
    /\ iter' = iter + 1
    /\ UNCHANGED <<src, events, raw_commands, cpc, notCleanup>>

\* the remaining text is dropped
RemainingTextDropped == <<>>

\* the Text fragment for the rest of the file, lines 413-418
RemainingText ==
    IF pos < StrLen(src)
    THEN <<TextFragment(pos, CharRange(src, pos, StrLen(src)))>>
    ELSE <<>>

\* the loop ends, lines 412-420
CleanupFinish ==
    /\ cpc = "sweep"
    /\ iter > Len(raw_commands)
    /\ new_commands' = new_commands \o RemainingText
    /\ cpc' = "done"
    /\ UNCHANGED <<src, events, raw_commands, pos, iter, notCleanup>>

NextCleanup == CleanupSort \/ CleanupSweep \/ CleanupFinish

SpecCleanup == InitCleanup /\ [][NextCleanup]_vars

----------------------------------------------------------------------------
(* Properties of cleanup_commands                                          *)

IsText(f) == f.kind = "Text"
IsEvent(f) == f.kind # "Text"

RECURSIVE ConcatText(_)
\* the contents of the Text fragments of a fragment list, concatenated
ConcatText(fs) ==
    IF fs = <<>> THEN <<>>
    ELSE (IF IsText(Head(fs)) THEN Head(fs).text ELSE <<>>) \o ConcatText(Tail(fs))

CleanupDone == cpc = "done"

\* C1: the Text fragments of the output of cleanup_commands, concatenated in
\* output order, are the text exactly, for any events with offsets in
\* [0, len(t)], any order, any number sharing an offset.
C1_TextConcatIsSource ==
    CleanupDone => ConcatText(new_commands) = src

C1_Witness ==
    /\ CleanupDone
    /\ Len(events) = 2
    /\ events[1].offset = events[2].offset
    /\ \E i \in 1..Len(src) : src[i] = "E"
    /\ \E i \in 1..Len(new_commands) :
          IsText(new_commands[i]) /\ new_commands[i].text # <<>>

\* the bytes of t at byte positions [from, from + n)
BytesAt(t, from, n) == SubSeq(StrBytes(t), from + 1, from + n)

\* byte offset o of t is the start of a character of t, or the end of t
OnCharBoundary(t, o) == \E ci \in 0..Len(t) : ByteIndexFromCharIndex(t, ci) = o

\* C2: in byte terms the output is gap-free and overlap-free, also for texts
\* with multi-byte characters: each Text fragment (o, s) holds the bytes
\* o .. o+len(s) of the text, consecutive Text fragments are contiguous and
\* cover [0, len(t)), and each event with offset o comes exactly after the
\* first o bytes of the text were emitted as Text. (Stated for events that
\* lie on character boundaries, as the events of both passes do.)
C2_ByteExact ==
    (CleanupDone /\ \A i \in 1..Len(events) : OnCharBoundary(src, events[i].offset)) =>
        LET out == new_commands
            T == SelectSeq(out, IsText)
        IN  /\ \A i \in 1..Len(T) :
                  /\ T[i].offset + StrLen(T[i].text) <= StrLen(src)
                  /\ StrBytes(T[i].text) = BytesAt(src, T[i].offset, StrLen(T[i].text))
            /\ \A i \in 1..Len(T) :
                  T[i].offset = (IF i = 1 THEN 0
                                 ELSE T[i - 1].offset + StrLen(T[i - 1].text))
            /\ (StrLen(src) > 0 =>
                  /\ Len(T) > 0
                  /\ T[Len(T)].offset + StrLen(T[Len(T)].text) = StrLen(src))
            /\ \A i \in 1..Len(out) :
                  IsEvent(out[i]) =>
                      StrLen(ConcatText(SubSeq(out, 1, i - 1))) = out[i].offset

\* C3 as stated: with no events the output is the single fragment Text(t) at
\* offset 0, for every text, the empty text included.
C3_SingleTextAlways ==
    (CleanupDone /\ events = <<>>) => new_commands = <<TextFragment(0, src)>>

\* C3 as amended: with no events the output is the single fragment Text(t) at
\* offset 0 when t is not empty, and no fragment at all when t is empty.
C3_SingleTextUnlessEmpty ==
    (CleanupDone /\ events = <<>>) =>
        new_commands = (IF src = <<>> THEN <<>> ELSE <<TextFragment(0, src)>>)

C3_Witness ==
    /\ CleanupDone
    /\ events = <<>>
    /\ Len(src) = 2
    /\ src[1] = "E"
    /\ Len(new_commands) = 1

\* C4: the non-Text fragments of the output are the input events stable-sorted
\* by offset: a rearrangement of the input with non-decreasing offsets in
\* which events of equal offset keep their input order.
C4_StableSortOfEvents ==
    CleanupDone =>
        LET out == SelectSeq(new_commands, IsEvent)
            n == Len(events)
        IN  /\ Len(out) = n
            /\ \A i \in 1..n : \A j \in 1..n : i < j => out[i].offset <= out[j].offset
            /\ \E p \in [1..n -> 1..n] :
                  /\ \A i \in 1..n : \A j \in 1..n : i # j => p[i] # p[j]
                  /\ \A i \in 1..n : out[i] = events[p[i]]
                  /\ \A i \in 1..n : \A j \in 1..n :
                        (i < j /\ out[i].offset = out[j].offset) => p[i] < p[j]

C4_Witness ==
    /\ CleanupDone
    /\ Len(events) = 2
    /\ events[1].offset = events[2].offset
    /\ events[1] # events[2]
    /\ events[1].offset > 0
    /\ SelectSeq(new_commands, IsEvent) = events

----------------------------------------------------------------------------
(* Tree differ: calculate_folder_diff and unflatten_tree                   *)
(* A path is a String, here a sequence of characters with "/" separators.  *)

Sep == "/"

\* the relative paths the snapshots draw from
Paths ==
    { <<"a">>, <<"b">>,
      <<"a", Sep, "a">>, <<"a", Sep, "b">>,
      <<"a", "b", Sep, "a">>,
      <<"b", Sep, "a", Sep, "a">>, <<"b", Sep, "a", Sep, "b">> }

\* format!("{:x}", hash.finalize())
Digests == {"h1", "h2"}

\* Option<String>
None == [some |-> FALSE, val |-> <<>>]
Some(v) == [some |-> TRUE, val |-> v]

\* str::starts_with
StartsWith(s, p) == Len(p) <= Len(s) /\ SubSeq(s, 1, Len(p)) = p

\* str::strip_prefix
StripPrefix(s, p) ==
    IF StartsWith(s, p) THEN Some(SubSeq(s, Len(p) + 1, Len(s))) ELSE None

\* str::contains('/')
ContainsSep(s) == \E i \in 1..Len(s) : s[i] = Sep

\* path.split('/').next().unwrap(): the part before the first '/'
FirstSegment(s) ==
    IF ContainsSep(s)
    THEN SubSeq(s, 1, (CHOOSE i \in 1..Len(s) :
                          s[i] = Sep /\ \A j \in 1..(i - 1) : s[j] # Sep) - 1)
    ELSE s

\* format!("{}/{}", prefix, name), or the name alone without a prefix
JoinPrefix(prefix, name) ==
    IF prefix.some THEN prefix.val \o <<Sep>> \o name ELSE name

\* FilesystemItem
FileItem(n, st) == [kind |-> "File", name |-> n, state |-> st, children |-> <<>>]
DirectoryItem(n, ch) == [kind |-> "Directory", name |-> n, state |-> "", children |-> ch]

\* the outcome of a call: a value, or a panic that unwinds through the callers
Returned(v) == [panic |-> FALSE, value |-> v]
Panicked == [panic |-> TRUE, value |-> <<>>]

\* a get_dir_tree result a file system can produce: no path is both a file
\* and a directory
IsSnapshot(f) ==
    \A p \in DOMAIN f : \A q \in DOMAIN f : ~StartsWith(q, p \o <<Sep>>)

Snapshots ==
    {f \in UNION {[S -> Digests] : S \in SUBSET Paths} :
        Cardinality(DOMAIN f) <= MaxFiles /\ IsSnapshot(f)}

\* the sequences that hold each element of the finite set S once: the orders
\* in which a HashMap with key set S can be iterated
Orderings(S) ==
    {o \in [1..Cardinality(S) -> S] :
        \A i \in DOMAIN o : \A j \in DOMAIN o : i # j => o[i] # o[j]}

\* the first loop without the digest comparison of line 181
ClassifyOldNoCompare(old, new) ==
    [p \in DOMAIN old |-> IF p \in DOMAIN new THEN "Modified" ELSE "Removed"]

\* the first loop, lines 179-187
ClassifyOld(old, new) ==
    [p \in {q \in DOMAIN old : q \notin DOMAIN new \/ old[q] # new[q]} |->
        IF p \in DOMAIN new THEN "Modified" ELSE "Removed"]

\* the second loop inserting Modified where it should insert Added
ClassifyNewAsModified(t, old, new) ==
    [p \in DOMAIN t \cup {q \in DOMAIN new : q \notin DOMAIN old} |->
        IF p \in DOMAIN new /\ p \notin DOMAIN old THEN "Modified" ELSE t[p]]

\* the second loop, lines 188-192, inserting into the map t
ClassifyNew(t, old, new) ==
    [p \in DOMAIN t \cup {q \in DOMAIN new : q \notin DOMAIN old} |->
        IF p \in DOMAIN new /\ p \notin DOMAIN old THEN "Added" ELSE t[p]]

\* the items of lines 106-124: the keys that start with the prefix, each with
\* "<prefix>/" stripped and unwrapped; None marks an unwrap of None
StrippedKeys(keys, prefix) ==
    LET selected == SelectSeq(keys, LAMBDA path :
                        prefix.some => StartsWith(path, prefix.val))
    IN  [i \in 1..Len(selected) |->
            IF prefix.some
            THEN StripPrefix(selected[i], prefix.val \o <<Sep>>)
            ELSE Some(selected[i])]

RECURSIVE UnflattenTree(_, _, _)
RECURSIVE UnflattenDirs(_, _, _, _, _)
RECURSIVE UnflattenDirsNoDedup(_, _, _, _, _)

\* the loop over dirs without the check of lines 137-142
UnflattenDirsNoDedup(t, keys, prefix, dirs, children) ==
    IF dirs = <<>> THEN Returned(children)
    ELSE LET dir == Head(dirs)
             subtree == UnflattenTree(t, keys, Some(JoinPrefix(prefix, dir)))
         IN  IF subtree.panic THEN Panicked
             ELSE UnflattenDirsNoDedup(t, keys, prefix, Tail(dirs),
                      Append(children, DirectoryItem(dir, subtree.value)))

\* the loop over dirs, lines 136-155, from the children built so far
UnflattenDirs(t, keys, prefix, dirs, children) ==
    IF dirs = <<>> THEN Returned(children)
    ELSE LET dir == Head(dirs)
             seen == \E i \in 1..Len(children) :
                        children[i].kind = "Directory" /\ children[i].name = dir
         IN  IF seen THEN UnflattenDirs(t, keys, prefix, Tail(dirs), children)
             ELSE LET subtree == UnflattenTree(t, keys, Some(JoinPrefix(prefix, dir)))
                  IN  IF subtree.panic THEN Panicked
                      ELSE UnflattenDirs(t, keys, prefix, Tail(dirs),
                               Append(children, DirectoryItem(dir, subtree.value)))

RECURSIVE UnflattenFiles(_, _, _, _)
\* the loop over files, lines 157-169
UnflattenFiles(t, prefix, files, children) ==
    IF files = <<>> THEN children
    ELSE LET path == JoinPrefix(prefix, Head(files))
         IN  UnflattenFiles(t, prefix, Tail(files),
                 IF path \in DOMAIN t
                 THEN Append(children, FileItem(Head(files), t[path]))
                 ELSE children)

\* unflatten_tree(tree, prefix); keys is the order of tree.keys()
UnflattenTree(t, keys, prefix) ==
    LET stripped == StrippedKeys(keys, prefix)
    IN  IF \E i \in 1..Len(stripped) : ~stripped[i].some THEN Panicked
        ELSE LET items == [i \in 1..Len(stripped) |-> stripped[i].val]
                 files == SelectSeq(items, LAMBDA path : ~ContainsSep(path))
                 withSep == SelectSeq(items, ContainsSep)
                 dirs == [i \in 1..Len(withSep) |-> FirstSegment(withSep[i])]
                 withDirs == UnflattenDirs(t, keys, prefix, dirs, <<>>)
             IN  IF withDirs.panic THEN Panicked
                 ELSE Returned(UnflattenFiles(t, prefix, files, withDirs.value))

InitTree ==
    /\ IdleCleanup
    /\ IdleAsar
    /\ IdleOthers
    /\ old_tree \in Snapshots
    /\ new_tree \in Snapshots
    /\ Cardinality(DOMAIN old_tree \cup DOMAIN new_tree) <= MaxFiles
    /\ tree = <<>>
    /\ file_tree = <<>>
    /\ tpc = "classify"

\* lines 178-192
Classify ==
    /\ tpc = "classify"
    /\ tree' = ClassifyNew(ClassifyOld(old_tree, new_tree), old_tree, new_tree)
    /\ tpc' = "unflatten"
    /\ UNCHANGED <<old_tree, new_tree, file_tree, notTree>>

\* lines 194-200: unflatten_tree returns and the FolderDiff is built
UnflattenReturns ==
    /\ tpc = "unflatten"
    /\ \E keys \in Orderings(DOMAIN tree) :
          LET r == UnflattenTree(tree, keys, None)
          IN  /\ ~r.panic
              /\ file_tree' = r.value
    /\ tpc' = "done"
    /\ UNCHANGED <<old_tree, new_tree, tree, notTree>>

\* line 194: an unwrap inside unflatten_tree panics (line 118)
UnflattenPanics ==
    /\ tpc = "unflatten"
    /\ \E keys \in Orderings(DOMAIN tree) : UnflattenTree(tree, keys, None).panic
    /\ tpc' = "panicked"
    /\ UNCHANGED <<old_tree, new_tree, tree, file_tree, notTree>>

NextTree == Classify \/ UnflattenReturns \/ UnflattenPanics

SpecTree == InitTree /\ [][NextTree]_vars

----------------------------------------------------------------------------
(* Properties of the tree differ                                           *)

RECURSIVE FilesOf(_, _)
\* the root-to-File paths of a Directory (names joined by '/'), each with
\* the state its File item carries
FilesOf(children, prefix) ==
    UNION { IF children[i].kind = "File"
            THEN {<<JoinPrefix(prefix, children[i].name), children[i].state>>}
            ELSE FilesOf(children[i].children,
                         Some(JoinPrefix(prefix, children[i].name)))
          : i \in 1..Len(children) }

TreeEnded == tpc \in {"done", "panicked"}

\* C5: for every flat map m, unflatten_tree(m, None) completes and returns a
\* tree whose root-to-File paths are exactly the keys of m, each File with
\* the state m gives its path.
C5_UnflattenHoldsExactlyTheKeys ==
    TreeEnded =>
        /\ tpc = "done"
        /\ FilesOf(file_tree, None) = {<<p, tree[p]>> : p \in DOMAIN tree}

\* the state the result of calculate_folder_diff gives path p, if any
ResultStates(p) == {st \in {"Added", "Modified", "Removed"} :
                        <<p, st>> \in FilesOf(file_tree, None)}

InOld(p) == p \in DOMAIN old_tree
InNew(p) == p \in DOMAIN new_tree

\* C6: the result of calculate_folder_diff classifies by digest only: p is
\* Removed iff in old and not in new, Modified iff in both with different
\* digests, Added iff in new and not in old, absent iff in both with equal
\* digests, and no path has two states.
C6_ResultClassifiesByDigest ==
    TreeEnded =>
        /\ tpc = "done"
        /\ \A p \in Paths :
              /\ "Removed" \in ResultStates(p) <=> (InOld(p) /\ ~InNew(p))
              /\ "Modified" \in ResultStates(p) <=>
                    (InOld(p) /\ InNew(p) /\ old_tree[p] # new_tree[p])
              /\ "Added" \in ResultStates(p) <=> (InNew(p) /\ ~InOld(p))
              /\ ResultStates(p) = {} <=>
                    ((InOld(p) /\ InNew(p) /\ old_tree[p] = new_tree[p])
                     \/ (~InOld(p) /\ ~InNew(p)))
              /\ Cardinality(ResultStates(p)) <= 1

\* C7: calculate_folder_diff(d, d) returns a FolderDiff with an empty root
\* item sequence.
C7_SelfDiffIsEmpty ==
    (TreeEnded /\ old_tree = new_tree) => (tpc = "done" /\ file_tree = <<>>)

C7_Witness ==
    /\ tpc = "done"
    /\ old_tree = new_tree
    /\ Cardinality(DOMAIN old_tree) = 2
    /\ \E p \in DOMAIN old_tree : ContainsSep(p)
    /\ file_tree = <<>>

----------------------------------------------------------------------------
(* Asar decoder: parse_asar                                                *)
(* The stream is stream_len bytes long; the byte at position i is written  *)
(* i, so a file's content shows which positions it was read from. The      *)
(* first four u32 fields and the JSON bytes are not modelled byte by byte: *)
(* the values the fields decode to and the value the JSON deserializes to  *)
(* are part of the input.                                                  *)

\* AsarEntry::File { offset: String, size: usize }
FileEntry(o, sz) == Entry("File", o, sz, <<>>)
\* AsarEntry::Directory { files: HashMap<String, AsarEntry> }
DirectoryEntry(f) == Entry("Directory", <<>>, 0, f)
\* JSON bytes that serde_json rejects
Malformed == Entry("Malformed", <<>>, 0, <<>>)

\* the four u32 fields before the JSON: payload_size, header_size,
\* header_string_size, actual_string_size
HeaderFieldsLen == 16

Digits == <<"0", "1", "2", "3", "4", "5", "6", "7", "8", "9">>
IsDigit(c) == \E d \in 1..10 : Digits[d] = c
DigitValue(c) == (CHOOSE d \in 1..10 : Digits[d] = c) - 1

RECURSIVE ParseDigits(_, _)
\* the digits of str, most significant first, added to acc; -1 when a
\* character is no digit or the value exceeds usize::MAX
ParseDigits(str, acc) ==
    IF str = <<>> THEN acc
    ELSE IF ~IsDigit(Head(str)) THEN -1
    ELSE LET v == 10 * acc + DigitValue(Head(str))
         IN  IF v > U64Max THEN -1 ELSE ParseDigits(Tail(str), v)

\* offset.parse::<usize>(): the value, or -1 for Err
ParseUsize(str) == IF str = <<>> THEN -1 ELSE ParseDigits(str, 0)

RECURSIVE Decimal(_)
\* n.to_string()
Decimal(n) ==
    IF n < 10 THEN <<Digits[n + 1]>> ELSE Decimal(n \div 10) \o <<Digits[(n % 10) + 1]>>

\* a u64 sum in a build without overflow checks
WrappingAdd(x, y) == (x + y) % (U64Max + 1)

\* the bytes of the stream at positions [from, from + n)
StreamBytes(from, n) == [i \in 1..n |-> from + i - 1]

\* the names of archive entries
Names == {<<"a">>, <<"b">>}

Offsets == {<<"0">>, <<"1">>, Decimal(U64Max), <<"x">>}
Sizes == {0, MaxSize}

FileEntries == {FileEntry(o, sz) : o \in Offsets, sz \in Sizes}

DirectoriesOver(entries) ==
    {DirectoryEntry(f) : f \in UNION {[S -> entries] : S \in SUBSET Names}}

RECURSIVE CountFiles(_)
CountFiles(e) ==
    IF e.kind = "File" THEN 1
    ELSE IF DOMAIN e.files = {} THEN 0
    ELSE LET n == CHOOSE n \in DOMAIN e.files : TRUE
             rest == [m \in DOMAIN e.files \ {n} |-> e.files[m]]
         IN  CountFiles(e.files[n]) + CountFiles(DirectoryEntry(rest))

\* the header trees: a File, or Directories nested two deep
HeaderTrees ==
    {e \in FileEntries \cup DirectoriesOver(FileEntries \cup DirectoriesOver(FileEntries)) :
        CountFiles(e) <= MaxAsarFiles}

InitAsar ==
    /\ IdleCleanup
    /\ IdleTree
    /\ IdleOthers
    /\ stream_len \in {12, 18, 23}
    /\ header_string_size \in {4, 8}
    /\ actual_string_size \in {1, 4}
    /\ json \in HeaderTrees \cup {Malformed}
    /\ rpos = 0
    /\ header_json = NoEntry
    /\ base = 0
    /\ walk_stack = <<>>
    /\ output = <<>>
    /\ asar_result = "none"
    /\ returned = None
    /\ apc = "fields"

\* parse_asar returns Err (or unwinds): the caller gets no FileTree
AsarFails(how) ==
    /\ asar_result' = how
    /\ returned' = None
    /\ apc' = "done"

\* the four u32 fields are read, lines 90-94
ReadHeaderFields ==
    /\ apc = "fields"
    /\ rpos + HeaderFieldsLen <= stream_len
    /\ rpos' = rpos + HeaderFieldsLen
    /\ apc' = "json"
    /\ UNCHANGED <<stream_len, header_string_size, actual_string_size, json,
                   header_json, base, walk_stack, output, asar_result, returned,
                   notAsar>>

\* the stream ends inside the four u32 fields
ReadHeaderFieldsFails ==
    /\ apc = "fields"
    /\ rpos + HeaderFieldsLen > stream_len
    /\ AsarFails("err")
    /\ UNCHANGED <<stream_len, header_string_size, actual_string_size, json, rpos,
                   header_json, base, walk_stack, output, notAsar>>

\* header_json_reader, lines 28-36
HeaderJsonReader ==
    /\ apc = "json"
    /\ rpos + actual_string_size <= stream_len
    /\ json # Malformed
    /\ rpos' = rpos + actual_string_size
    /\ header_json' = json
    /\ apc' = "tree"
    /\ UNCHANGED <<stream_len, header_string_size, actual_string_size, json,
                   base, walk_stack, output, asar_result, returned, notAsar>>

\* header_json_reader: read_exact (line 32) or serde_json (line 34) fails
HeaderJsonReaderFails ==
    /\ apc = "json"
    /\ rpos + actual_string_size > stream_len \/ json = Malformed
    /\ AsarFails("err")
    /\ UNCHANGED <<stream_len, header_string_size, actual_string_size, json, rpos,
                   header_json, base, walk_stack, output, notAsar>>

\* a base that starts where the JSON ends
PayloadBaseAfterJson == HeaderFieldsLen + actual_string_size

\* line 79: 8 + header_string_size as usize + 4
PayloadBase == 8 + header_string_size + 4

\* file_tree_reader calls walk_tree on the root, lines 72-82
FileTreeReader ==
    /\ apc = "tree"
    /\ output' = <<>>
    /\ base' = PayloadBase
    /\ walk_stack' = <<[entry |-> header_json, path |-> <<>>]>>
    /\ apc' = "walk"
    /\ UNCHANGED <<stream_len, header_string_size, actual_string_size, json, rpos,
                   header_json, asar_result, returned, notAsar>>

\* a child path that always starts with the separator
ChildPathLeadingSlash(path, name) == path \o <<Sep>> \o name

\* lines 48-52
ChildPath(path, name) == IF path # <<>> THEN path \o <<Sep>> \o name ELSE name

\* walk_tree on a Directory, lines 46-55: the children are walked in the
\* order the HashMap yields them, each before the next
WalkDirectory ==
    /\ apc = "walk"
    /\ walk_stack # <<>>
    /\ LET top == Head(walk_stack)
       IN  /\ top.entry.kind = "Directory"
           /\ \E names \in Orderings(DOMAIN top.entry.files) :
                 walk_stack' =
                     [i \in 1..Len(names) |->
                         [entry |-> top.entry.files[names[i]],
                          path |-> ChildPath(top.path, names[i])]]
                     \o Tail(walk_stack)
    /\ UNCHANGED <<stream_len, header_string_size, actual_string_size, json, rpos,
                   header_json, base, output, asar_result, returned, apc, notAsar>>

TopIsFile == apc = "walk" /\ walk_stack # <<>> /\ Head(walk_stack).entry.kind = "File"

\* walk_tree on a File: offset.parse fails, lines 58-60
WalkFileParseFails ==
    /\ TopIsFile
    /\ ParseUsize(Head(walk_stack).entry.offset) = -1
    /\ AsarFails("err")
    /\ UNCHANGED <<stream_len, header_string_size, actual_string_size, json, rpos,
                   header_json, base, walk_stack, output, notAsar>>

\* line 61 in a build with overflow checks: base + offset overflows u64
WalkFileOverflowPanics ==
    /\ TopIsFile
    /\ ParseUsize(Head(walk_stack).entry.offset) # -1
    /\ base + ParseUsize(Head(walk_stack).entry.offset) > U64Max
    /\ AsarFails("panic")
    /\ UNCHANGED <<stream_len, header_string_size, actual_string_size, json, rpos,
                   header_json, base, walk_stack, output, notAsar>>

\* the position line 61 seeks to; a Cursor seeks beyond its end without error
SeekPosition(offset) == WrappingAdd(base, offset)

\* read_exact of size bytes at position p succeeds
CanReadExact(p, size) == size = 0 \/ p + size <= stream_len

\* a failed read is skipped and the walk goes on
WalkFileReadFailsSkipped ==
    /\ TopIsFile
    /\ LET offset == ParseUsize(Head(walk_stack).entry.offset)
       IN  /\ offset # -1
           /\ ~CanReadExact(SeekPosition(offset), Head(walk_stack).entry.size)
           /\ rpos' = SeekPosition(offset)
    /\ walk_stack' = Tail(walk_stack)
    /\ UNCHANGED <<stream_len, header_string_size, actual_string_size, json,
                   header_json, base, output, asar_result, returned, apc, notAsar>>

\* walk_tree on a File: read_exact fails, line 63
WalkFileReadFails ==
    /\ TopIsFile
    /\ LET offset == ParseUsize(Head(walk_stack).entry.offset)
       IN  /\ offset # -1
           /\ ~CanReadExact(SeekPosition(offset), Head(walk_stack).entry.size)
           /\ rpos' = SeekPosition(offset)
    /\ AsarFails("err")
    /\ UNCHANGED <<stream_len, header_string_size, actual_string_size, json,
                   header_json, base, walk_stack, output, notAsar>>

\* walk_tree on a File: seek, read and insert, lines 61-64
WalkFileInserts ==
    /\ TopIsFile
    /\ LET top == Head(walk_stack)
           offset == ParseUsize(top.entry.offset)
           size == top.entry.size
       IN  /\ offset # -1
           /\ CanReadExact(SeekPosition(offset), size)
           /\ rpos' = SeekPosition(offset) + size
           /\ output' = [q \in DOMAIN output \cup {top.path} |->
                            IF q = top.path
                            THEN StreamBytes(SeekPosition(offset), size)
                            ELSE output[q]]
    /\ walk_stack' = Tail(walk_stack)
    /\ UNCHANGED <<stream_len, header_string_size, actual_string_size, json,
                   header_json, base, asar_result, returned, apc, notAsar>>

\* walk_tree returned Ok: file_tree_reader and parse_asar return the map,
\* lines 83-84 and 117-119
ParseAsarReturns ==
    /\ apc = "walk"
    /\ walk_stack = <<>>
    /\ asar_result' = "ok"
    /\ returned' = Some(output)
    /\ apc' = "done"
    /\ UNCHANGED <<stream_len, header_string_size, actual_string_size, json, rpos,
                   header_json, base, walk_stack, output, notAsar>>

NextAsar ==
    \/ ReadHeaderFields
    \/ ReadHeaderFieldsFails
    \/ HeaderJsonReader
    \/ HeaderJsonReaderFails
    \/ FileTreeReader
    \/ WalkDirectory
    \/ WalkFileParseFails
    \/ WalkFileOverflowPanics
    \/ WalkFileReadFails
    \/ WalkFileInserts
    \/ ParseAsarReturns

SpecAsar == InitAsar /\ [][NextAsar]_vars
----------------------------------------------------------------------------
(* Properties of the asar decoder                                          *)

RECURSIVE FileEntriesOf(_, _)
\* the File entries of a header tree, each as <<path, offset, size>>, the
\* path being the names from the root joined by '/'
FileEntriesOf(e, path) ==
    IF e.kind = "File" THEN {<<path, e.offset, e.size>>}
    ELSE UNION {FileEntriesOf(e.files[n], ChildPath(path, n)) : n \in DOMAIN e.files}

AsarOk == apc = "done" /\ asar_result = "ok"

\* C8: when parse_asar succeeds, the FileTree maps the path of every File
\* entry (path p, decimal offset o, size s) to exactly the s bytes of the
\* stream at positions base+o .. base+o+s, with base = 8 + header_string_size
\* + 4.
C8_ContentIsStreamAtBasePlusOffset ==
    AsarOk =>
        \A f \in FileEntriesOf(json, <<>>) :
            LET p == f[1]
                o == ParseUsize(f[2])
                sz == f[3]
                from == 8 + header_string_size + 4 + o
            IN  /\ o # -1
                /\ p \in DOMAIN returned.val
                /\ Len(returned.val[p]) = sz
                /\ sz > 0 => /\ from + sz <= stream_len
                             /\ returned.val[p] = StreamBytes(from, sz)

\* C9: the decoder reads exactly actual_string_size bytes for the JSON
\* header, and the payload base it uses is 8 + header_string_size + 4,
\* whatever actual_string_size is.
C9_JsonLengthAndBase ==
    /\ apc = "tree" => rpos = HeaderFieldsLen + actual_string_size
    /\ apc = "walk" => base = 12 + header_string_size

C9_Witness ==
    /\ apc = "walk"
    /\ header_string_size = 8
    /\ actual_string_size = 1
    /\ base = 20
    /\ \E p \in DOMAIN output : output[p] = StreamBytes(20, MaxSize)

\* decoding the File entry (offset, size) fails: the offset is no usize, or
\* fewer than size bytes lie at the position sought
EntryFails(offset, size) ==
    \/ ParseUsize(offset) = -1
    \/ ~CanReadExact(WrappingAdd(8 + header_string_size + 4, ParseUsize(offset)), size)

----------------------------------------------------------------------------
(* Further properties of the asar decoder and of the tree differ           *)

\* C11: every File entry that needs a seek or a read past the end of the
\* stream makes decoding fail: if base + offset lies beyond the end of the
\* stream, or fewer than size bytes lie at base + offset, parse_asar returns
\* an error, for every size, 0 included.
C11_PastEndFails ==
    (apc = "done" /\ header_json # NoEntry
        /\ \E f \in FileEntriesOf(header_json, <<>>) :
              LET o == ParseUsize(f[2])
                  from == 8 + header_string_size + 4 + o
              IN  /\ o # -1
                  /\ (from > stream_len \/ from + f[3] > stream_len))
    => asar_result # "ok"

RECURSIVE LeafNames(_)
\* the File leaves of a header tree, each as the sequence of the names on
\* the way from the root to it
LeafNames(e) ==
    IF e.kind = "File" THEN {<<>>}
    ELSE UNION {{<<n>> \o l : l \in LeafNames(e.files[n])} : n \in DOMAIN e.files}

RECURSIVE JoinNames(_)
\* names joined by '/'
JoinNames(ns) ==
    IF ns = <<>> THEN <<>>
    ELSE IF Len(ns) = 1 THEN ns[1]
    ELSE ns[1] \o <<Sep>> \o JoinNames(Tail(ns))

\* C15: the keys of the FileTree parse_asar returns are exactly the File
\* leaves of the header tree, each keyed by the directory names on its path
\* and its own name joined by '/', without a leading '/'.
C15_KeysAreLeafPaths ==
    AsarOk =>
        /\ DOMAIN returned.val = {JoinNames(l) : l \in LeafNames(json)}
        /\ \A k \in DOMAIN returned.val : k # <<>> => Head(k) # Sep

C15_Witness ==
    /\ AsarOk
    /\ \E k \in DOMAIN returned.val : Len(k) = 1
    /\ \E k \in DOMAIN returned.val : Len(k) = 3 /\ k[2] = Sep

RECURSIVE UniqueSiblingNames(_)
\* no two items of a Directory have the same name, at every level below it
UniqueSiblingNames(children) ==
    /\ \A i \in 1..Len(children) : \A j \in 1..Len(children) :
          i # j => children[i].name # children[j].name
    /\ \A i \in 1..Len(children) :
          children[i].kind = "Directory" => UniqueSiblingNames(children[i].children)

FlatClassification(old, new) == ClassifyNew(ClassifyOld(old, new), old, new)

SwapAddedRemoved(st) ==
    IF st = "Added" THEN "Removed" ELSE IF st = "Removed" THEN "Added" ELSE st

\* C20: the classification is anti-symmetric: the flat classification of
\* (new, old) is that of (old, new) with Added and Removed swapped and
\* Modified unchanged, over the same paths.
C20_ClassificationAntiSymmetric ==
    tpc # "classify" =>
        LET back == FlatClassification(new_tree, old_tree)
        IN  /\ DOMAIN back = DOMAIN tree
            /\ \A p \in DOMAIN tree : back[p] = SwapAddedRemoved(tree[p])

C20_Witness ==
    /\ tpc = "unflatten"
    /\ \E p \in DOMAIN tree : tree[p] = "Added"
    /\ \E p \in DOMAIN tree : tree[p] = "Modified"

----------------------------------------------------------------------------
(* do_syntax_highlighting and its line iterator, LinesWithEndings          *)

MaxSourceLen == 3   \* characters in a text handed to the highlighting pass

Newline == "\n"
SourceChars == Chars \cup {Newline}
SourceTexts == UNION {[1..n -> SourceChars] : n \in 0..MaxSourceLen}

\* file extensions: of a language both passes know, of a language only the
\* highlighter has a syntax for, and of no known language
Extensions == {<<"r", "s">>, <<"m", "d">>, <<"z", "z">>}
\* the extensions for which find_syntax_by_extension is Some
SyntaxExtensions == {<<"r", "s">>, <<"m", "d">>}
\* the extensions for which lang_name_from_file_ext is Ok
LanguageExtensions == {<<"r", "s">>}

\* the styles the theme gives to tokens
Styles == {DefaultStyle,
           Style(TRUE, FALSE, FALSE, "mauve"),
           Style(FALSE, TRUE, TRUE, "mauve")}

\* DiffRenderFragment(o, SetColor(c))
ColorEvent(o, c) ==
    [offset |-> o, kind |-> "SetColor", flag |-> FALSE, text |-> <<>>, color |-> c]

RECURSIVE FindNewline(_)
\* str::find('\n'): the byte index of the first newline, -1 for None
FindNewline(s) ==
    IF s = <<>> THEN -1
    ELSE IF Head(s) = Newline THEN 0
    ELSE LET r == FindNewline(Tail(s))
         IN  IF r = -1 THEN -1 ELSE Utf8Len(Head(s)) + r

\* lines 301-305: a byte index
Split(input) ==
    IF FindNewline(input) # -1 THEN FindNewline(input) + 1 ELSE StrLen(input)

\* str::split_at(mid), mid a byte index on a character boundary
SplitAt(s, mid) == <<ByteSlice(s, 0, mid), ByteSlice(s, mid, StrLen(s))>>

\* the events pushed for a token whatever the last values are
StyleEventsAlways(start, style, prev) ==
    <<Event(start, "SetBold", style.bold), Event(start, "SetItalic", style.italic),
      Event(start, "SetUnderline", style.underline), ColorEvent(start, style.color)>>

\* the events pushed for one token, lines 345-381
StyleEvents(start, style, prev) ==
    (IF style.bold # prev.bold
     THEN <<Event(start, "SetBold", style.bold)>> ELSE <<>>)
    \o (IF style.italic # prev.italic
        THEN <<Event(start, "SetItalic", style.italic)>> ELSE <<>>)
    \o (IF style.underline # prev.underline
        THEN <<Event(start, "SetUnderline", style.underline)>> ELSE <<>>)
    \o (IF style.color # prev.color
        THEN <<ColorEvent(start, style.color)>> ELSE <<>>)

InitHighlight ==
    /\ IdleCleanup
    /\ IdleApp
    /\ IdleLog
    /\ IdleTree
    /\ IdleAsar
    /\ IdleStructural
    /\ IdleFileDiff
    /\ hl_src \in SourceTexts
    /\ extension \in Extensions
    /\ lines = [input |-> <<>>, consumed |-> 0]
    /\ item = [line |-> <<>>, offset |-> 0]
    /\ range_start = 0
    /\ last = DefaultStyle
    /\ commands = <<>>
    /\ yielded = <<>>
    /\ tokens = <<>>
    /\ hpc = "find_syntax"

\* lines 321-323: no syntax for the extension
FindSyntaxFails ==
    /\ hpc = "find_syntax"
    /\ extension \notin SyntaxExtensions
    /\ hpc' = "err"
    /\ UNCHANGED <<hl_src, extension, lines, item, range_start, last, commands,
                   yielded, tokens, notHighlight>>

\* lines 321-334
FindSyntax ==
    /\ hpc = "find_syntax"
    /\ extension \in SyntaxExtensions
    /\ lines' = [input |-> hl_src, consumed |-> 0]
    /\ last' = DefaultStyle
    /\ hpc' = "next"
    /\ UNCHANGED <<hl_src, extension, item, range_start, commands, yielded, tokens,
                   notHighlight>>

\* LinesWithEndings::next returns Some, lines 297-313
LinesNext ==
    /\ hpc = "next"
    /\ lines.input # <<>>
    /\ LET split == Split(lines.input)
           offset == lines.consumed
           byte_index == ByteIndexFromCharIndex(lines.input, split)
           parts == SplitAt(lines.input, split)
       IN  /\ lines' = [input |-> parts[2], consumed |-> lines.consumed + byte_index]
           /\ item' = [line |-> parts[1], offset |-> offset]
           /\ yielded' = Append(yielded, [line |-> parts[1], offset |-> offset])
    /\ hpc' = "parse_line"
    /\ UNCHANGED <<hl_src, extension, range_start, last, commands, tokens,
                   notHighlight>>

\* LinesWithEndings::next returns None (298-300): the loop ends, line 385
LinesEnd ==
    /\ hpc = "next"
    /\ lines.input = <<>>
    /\ hpc' = "ok"
    /\ UNCHANGED <<hl_src, extension, lines, item, range_start, last, commands,
                   yielded, tokens, notHighlight>>

\* lines 337-339: parse_line returns Err
ParseLineFails ==
    /\ hpc = "parse_line"
    /\ hpc' = "err"
    /\ UNCHANGED <<hl_src, extension, lines, item, range_start, last, commands,
                   yielded, tokens, notHighlight>>

\* lines 337-340
ParseLine ==
    /\ hpc = "parse_line"
    /\ range_start' = 0
    /\ hpc' = "tokens"
    /\ UNCHANGED <<hl_src, extension, lines, item, last, commands, yielded, tokens,
                   notHighlight>>

\* one iteration of the inner loop, lines 341-382: the iterator yields the
\* style and the byte range of the next non-empty token of the line
HighlightToken ==
    /\ hpc = "tokens"
    /\ range_start < StrLen(item.line)
    /\ \E style \in Styles :
       \E range_end \in (range_start + 1)..StrLen(item.line) :
          /\ OnCharBoundary(item.line, range_end)
          /\ LET start == item.offset
                              + ByteIndexFromCharIndex(item.line, range_start)
             IN  /\ commands' = commands \o StyleEvents(start, style, last)
                 /\ tokens' = Append(tokens,
                                [start |-> start, style |-> style,
                                 line |-> Len(yielded), range_start |-> range_start])
          /\ last' = style
          /\ range_start' = range_end
    /\ UNCHANGED <<hl_src, extension, lines, item, yielded, hpc, notHighlight>>

\* the inner loop ends
TokensEnd ==
    /\ hpc = "tokens"
    /\ range_start = StrLen(item.line)
    /\ hpc' = "next"
    /\ UNCHANGED <<hl_src, extension, lines, item, range_start, last, commands,
                   yielded, tokens, notHighlight>>

NextHighlight ==
    \/ FindSyntaxFails
    \/ FindSyntax
    \/ LinesNext
    \/ LinesEnd
    \/ ParseLineFails
    \/ ParseLine
    \/ HighlightToken
    \/ TokensEnd

SpecHighlight == InitHighlight /\ [][NextHighlight]_vars

----------------------------------------------------------------------------
(* Properties of the highlighting pass                                     *)

RECURSIVE ConcatLines(_)
ConcatLines(ys) ==
    IF ys = <<>> THEN <<>> ELSE Head(ys).line \o ConcatLines(Tail(ys))

\* the sum of the byte lengths of the first n yielded lines
BytesBefore(n) == StrLen(ConcatLines(SubSeq(yielded, 1, n)))

HighlightRunning == hpc \in {"next", "parse_line", "tokens", "ok"}

\* C16: the lines the iterator yields concatenate to the input, each comes
\* with an offset equal to the sum of the byte lengths of the lines yielded
\* before it, and so the start computed for every token is its whole-file
\* byte offset, multi-byte characters included.
C16_LineOffsetsAreByteSums ==
    HighlightRunning =>
        /\ ConcatLines(yielded) \o lines.input = hl_src
        /\ \A k \in 1..Len(yielded) : yielded[k].offset = BytesBefore(k - 1)
        /\ \A k \in 1..Len(tokens) :
              tokens[k].start = BytesBefore(tokens[k].line - 1) + tokens[k].range_start

AttributeKind(a) ==
    CASE a = "bold" -> "SetBold"
      [] a = "italic" -> "SetItalic"
      [] a = "underline" -> "SetUnderline"
      [] a = "color" -> "SetColor"

\* the events of one attribute in the order pushed, each as <<offset, value>>
EmittedFor(a) ==
    LET es == SelectSeq(commands, LAMBDA f : f.kind = AttributeKind(a))
    IN  [k \in 1..Len(es) |->
            <<es[k].offset, IF a = "color" THEN es[k].color ELSE es[k].flag>>]

\* the tokens in the order processed, each as <<start, value of a>>
TokenValues(a) == [k \in 1..Len(tokens) |-> <<tokens[k].start, tokens[k].style[a]>>]

RECURSIVE Changes(_, _)
\* the elements of pairs whose value differs from the value before it
Changes(pairs, prev) ==
    IF pairs = <<>> THEN <<>>
    ELSE IF Head(pairs)[2] # prev
         THEN <<Head(pairs)>> \o Changes(Tail(pairs), Head(pairs)[2])
         ELSE Changes(Tail(pairs), prev)

\* C17: run-length reduction across the whole file, lines included: for
\* each attribute an event SetX(v) is pushed at a token's start iff v
\* differs from the value of the token before it (for the first token: from
\* the default false / transparent), so two consecutive events of one
\* attribute never carry the same value.
C17_EventsAreValueChanges ==
    \A a \in {"bold", "italic", "underline", "color"} :
        /\ EmittedFor(a) = Changes(TokenValues(a), DefaultStyle[a])
        /\ \A k \in 1..(Len(EmittedFor(a)) - 1) :
              EmittedFor(a)[k][2] # EmittedFor(a)[k + 1][2]

C17_Witness ==
    /\ hpc = "ok"
    /\ Len(yielded) = 2
    /\ Len(tokens) = 3
    /\ tokens[1].style.bold /\ tokens[2].style.bold /\ ~tokens[3].style.bold
    /\ tokens[2].line = 2
    /\ Len(EmittedFor("bold")) = 2
    /\ Len(EmittedFor("italic")) = 1

----------------------------------------------------------------------------
(* The structural pass: parse_diff, followed by cleanup_commands           *)

MaxEntries == 2     \* entries in a hunk

\* entry.reference.byte_range()
Range(s, e) == [start |-> s, end |-> e]

\* the byte ranges of nodes of a text: between character boundaries,
\* possibly empty
RangesOf(t) ==
    LET boundaries == {x \in 0..StrLen(t) : OnCharBoundary(t, x)}
    IN  {r \in {Range(s, e) : s \in boundaries, e \in boundaries} :
            r.start <= r.end}

\* the entries of the lines of a hunk, in order, at most n of them
HunksOf(t, n) == UNION {[1..k -> RangesOf(t)] : k \in 0..n}

RECURSIVE ParseDiff(_, _)
\* parse_diff(hunk, commands), lines 232-246
ParseDiff(h, cmds) ==
    IF h = <<>> THEN cmds
    ELSE ParseDiff(Tail(h),
                   cmds \o <<Event(Head(h).start, "SetHighlight", TRUE),
                             Event(Head(h).end, "SetHighlight", FALSE)>>)

InitStructural ==
    /\ IdleTree
    /\ IdleApp
    /\ IdleLog
    /\ IdleAsar
    /\ IdleHighlight
    /\ IdleFileDiff
    /\ src \in Texts
    /\ hunk \in HunksOf(src, MaxEntries)
    /\ events = <<>>
    /\ raw_commands = <<>>
    /\ new_commands = <<>>
    /\ pos = 0
    /\ iter = 1
    /\ cpc = "parse_diff"

\* parse_diff fills the command list that cleanup_commands is called with
ParseDiffPass ==
    /\ cpc = "parse_diff"
    /\ events' = ParseDiff(hunk, <<>>)
    /\ raw_commands' = ParseDiff(hunk, <<>>)
    /\ cpc' = "sort"
    /\ UNCHANGED <<src, new_commands, pos, iter, notCleanup>>

NextStructural == ParseDiffPass \/ CleanupSort \/ CleanupSweep \/ CleanupFinish

SpecStructural == InitStructural /\ [][NextStructural]_vars

RECURSIVE Replay(_, _)
\* replaying a fragment list with a boolean flag set by the SetHighlight
\* events: the flag each rendered byte is drawn with, in rendering order
Replay(fs, flag) ==
    IF fs = <<>> THEN <<>>
    ELSE LET f == Head(fs)
         IN  IF f.kind = "Text"
             THEN [i \in 1..StrLen(f.text) |-> flag] \o Replay(Tail(fs), flag)
             ELSE IF f.kind = "SetHighlight" THEN Replay(Tail(fs), f.flag)
             ELSE Replay(Tail(fs), flag)

InSomeRange(h, b) == \E k \in 1..Len(h) : h[k].start <= b /\ b < h[k].end

\* C19: for any changed byte ranges pushed by the structural pass (adjacent,
\* nested, overlapping, empty, in any order), the replay of the output of
\* cleanup_commands draws a text byte with the flag true iff its byte index
\* lies in at least one range [start, end).
C19_ReplayFlagsChangedBytes ==
    (cpc = "done" /\ events = ParseDiff(hunk, <<>>)) =>
        Replay(new_commands, FALSE)
            = [i \in 1..StrLen(src) |-> InSomeRange(hunk, i - 1)]

----------------------------------------------------------------------------
(* calculate_file_diff, highlight_single_file, calculate_file_diff_inner   *)

\* the texts of the files: empty, one line, two lines
FileTexts == {<<>>, <<"a">>, <<Newline, "a">>}

\* a file whose content is not valid UTF-8 exists and cannot be read
Files ==
    {Missing, File(TRUE, FALSE, <<>>)} \cup {File(TRUE, TRUE, t) : t \in FileTexts}

InitFileDiff ==
    /\ IdleCleanup
    /\ IdleApp
    /\ IdleLog
    /\ IdleTree
    /\ IdleAsar
    /\ IdleHighlight
    /\ IdleStructural
    /\ old_file \in Files
    /\ new_file \in Files
    /\ new_extension \in {None} \cup {Some(e) : e \in Extensions}
    /\ inner = [old_commands |-> <<>>, new_commands |-> <<>>]
    /\ failed = {}
    /\ file_diff = [old |-> <<>>, new |-> <<>>]
    /\ fd_result = "none"
    /\ fpc = "extension"

\* do_syntax_highlighting(s, extension, commands) is called, commands empty
StartHighlight(s) ==
    /\ hl_src' = s
    /\ lines' = [input |-> <<>>, consumed |-> 0]
    /\ item' = [line |-> <<>>, offset |-> 0]
    /\ range_start' = 0
    /\ last' = DefaultStyle
    /\ commands' = <<>>
    /\ yielded' = <<>>
    /\ tokens' = <<>>
    /\ hpc' = "find_syntax"

\* cleanup_commands(s, raw) is called
StartCleanup(s, raw) ==
    /\ src' = s
    /\ events' = raw
    /\ raw_commands' = raw
    /\ new_commands' = <<>>
    /\ pos' = 0
    /\ iter' = 1
    /\ cpc' = "sort"

\* calculate_file_diff returns Err
FileDiffFails ==
    /\ fd_result' = "err"
    /\ fpc' = "done"
    /\ UNCHANGED <<old_file, new_file, new_extension, inner, failed, file_diff>>

\* line 470: the new path has no extension
NoExtension ==
    /\ fpc = "extension"
    /\ ~new_extension.some
    /\ FileDiffFails
    /\ UNCHANGED <<cleanupVars, highlightVars, notFileDiff>>

\* lines 470-471
Extension ==
    /\ fpc = "extension"
    /\ new_extension.some
    /\ extension' = new_extension.val
    /\ fpc' = "exists"
    /\ UNCHANGED <<hl_src, lines, item, range_start, last, commands, yielded, tokens,
                   hpc, old_file, new_file, new_extension, inner, failed, file_diff,
                   fd_result, cleanupVars, notFileDiff>>

OneMissing == ~old_file.exists \/ ~new_file.exists

\* the file handed to highlight_single_file, lines 473-485
SingleFile == IF ~old_file.exists THEN new_file ELSE old_file

\* the FileDiff of lines 480-483 with the sides exchanged
MissingOldDiffSwapped(h) == [old |-> h, new |-> <<>>]

\* lines 474-477
MissingOldDiff(h) == [old |-> <<>>, new |-> h]

\* lines 481-484
MissingNewDiff(h) == [old |-> h, new |-> <<>>]

SingleFileDiff(h) == IF ~old_file.exists THEN MissingOldDiff(h) ELSE MissingNewDiff(h)

\* lines 476 / 482 with 455-457: read_to_string fails in highlight_single_file
SingleFileReadFails ==
    /\ fpc = "exists"
    /\ OneMissing
    /\ ~SingleFile.readable
    /\ FileDiffFails
    /\ UNCHANGED <<cleanupVars, highlightVars, notFileDiff>>

\* lines 455-461: the file is read and the highlighting pass is called
SingleFileHighlight ==
    /\ fpc = "exists"
    /\ OneMissing
    /\ SingleFile.readable
    /\ StartHighlight(SingleFile.text)
    /\ fpc' = "single_highlight"
    /\ UNCHANGED <<extension, old_file, new_file, new_extension, inner, failed,
                   file_diff, fd_result, cleanupVars, notFileDiff>>

\* lines 461-464: the pass failed, the raw text is returned
SingleFileFallback ==
    /\ fpc = "single_highlight"
    /\ hpc = "err"
    /\ failed' = failed \cup {"highlight"}
    /\ file_diff' = SingleFileDiff(<<TextFragment(0, hl_src)>>)
    /\ fd_result' = "ok"
    /\ fpc' = "done"
    /\ UNCHANGED <<old_file, new_file, new_extension, inner, cleanupVars,
                   highlightVars, notFileDiff>>

\* line 466: cleanup_commands is called
SingleFileCleanup ==
    /\ fpc = "single_highlight"
    /\ hpc = "ok"
    /\ StartCleanup(hl_src, commands)
    /\ fpc' = "single_cleanup"
    /\ UNCHANGED <<old_file, new_file, new_extension, inner, failed, file_diff,
                   fd_result, highlightVars, notFileDiff>>

\* lines 466 and 474-477 / 481-484
SingleFileReturns ==
    /\ fpc = "single_cleanup"
    /\ cpc = "done"
    /\ file_diff' = SingleFileDiff(new_commands)
    /\ fd_result' = "ok"
    /\ fpc' = "done"
    /\ UNCHANGED <<old_file, new_file, new_extension, inner, failed, cleanupVars,
                   highlightVars, notFileDiff>>

\* lines 487-492: one of the two files cannot be read as a string
ReadFails ==
    /\ fpc = "exists"
    /\ ~OneMissing
    /\ ~old_file.readable \/ ~new_file.readable
    /\ FileDiffFails
    /\ UNCHANGED <<cleanupVars, highlightVars, notFileDiff>>

\* lines 487-494 and 430-434: the inner function starts with the old side
InnerHighlightOld ==
    /\ fpc = "exists"
    /\ ~OneMissing
    /\ old_file.readable /\ new_file.readable
    /\ inner' = [old_commands |-> <<>>, new_commands |-> <<>>]
    /\ StartHighlight(old_file.text)
    /\ fpc' = "highlight_old"
    /\ UNCHANGED <<extension, old_file, new_file, new_extension, failed, file_diff,
                   fd_result, cleanupVars, notFileDiff>>

\* the pass that just ended returned Err: it is logged, nothing else
Logged(pass) == IF hpc = "err" THEN {pass} ELSE {}

\* lines 434-437: the pass on the old side has returned, whatever it pushed
\* is in old_commands; the new side is next
InnerHighlightNew ==
    /\ fpc = "highlight_old"
    /\ hpc \in {"ok", "err"}
    /\ inner' = [inner EXCEPT !.old_commands = commands]
    /\ failed' = failed \cup Logged("highlight_old")
    /\ StartHighlight(new_file.text)
    /\ fpc' = "highlight_new"
    /\ UNCHANGED <<extension, old_file, new_file, new_extension, file_diff,
                   fd_result, cleanupVars, notFileDiff>>

\* lines 437-444 with 257-267: do_file_diffing returns Err before any
\* parse_diff (no language for the extension, or the parsers or the edit
\* script fail); then line 446
DoFileDiffingFails ==
    /\ fpc = "highlight_new"
    /\ hpc \in {"ok", "err"}
    /\ inner' = [inner EXCEPT !.new_commands = commands]
    /\ failed' = failed \cup Logged("highlight_new") \cup {"diff"}
    /\ StartCleanup(old_file.text, inner.old_commands)
    /\ fpc' = "cleanup_old"
    /\ UNCHANGED <<old_file, new_file, new_extension, file_diff, fd_result,
                   highlightVars, notFileDiff>>

\* lines 437-444 with 257-276: do_file_diffing pushes the entries of the old
\* and new hunks; then line 446
DoFileDiffing ==
    /\ fpc = "highlight_new"
    /\ hpc \in {"ok", "err"}
    /\ extension \in LanguageExtensions
    /\ \E old_hunk \in HunksOf(old_file.text, 1) :
       \E new_hunk \in HunksOf(new_file.text, 1) :
          /\ inner' = [old_commands |-> ParseDiff(old_hunk, inner.old_commands),
                       new_commands |-> ParseDiff(new_hunk, commands)]
          /\ StartCleanup(old_file.text, ParseDiff(old_hunk, inner.old_commands))
    /\ failed' = failed \cup Logged("highlight_new")
    /\ fpc' = "cleanup_old"
    /\ UNCHANGED <<old_file, new_file, new_extension, file_diff, fd_result,
                   highlightVars, notFileDiff>>

\* lines 446-447
CleanupNew ==
    /\ fpc = "cleanup_old"
    /\ cpc = "done"
    /\ file_diff' = [file_diff EXCEPT !.old = new_commands]
    /\ StartCleanup(new_file.text, inner.new_commands)
    /\ fpc' = "cleanup_new"
    /\ UNCHANGED <<old_file, new_file, new_extension, inner, failed, fd_result,
                   highlightVars, notFileDiff>>

\* lines 445-448 and 494-496 (the inner function returns Ok in every case,
\* the fallback of lines 497-503 is never taken)
InnerReturns ==
    /\ fpc = "cleanup_new"
    /\ cpc = "done"
    /\ file_diff' = [file_diff EXCEPT !.new = new_commands]
    /\ fd_result' = "ok"
    /\ fpc' = "done"
    /\ UNCHANGED <<old_file, new_file, new_extension, inner, failed, cleanupVars,
                   highlightVars, notFileDiff>>

NextFileDiff ==
    \/ NoExtension
    \/ Extension
    \/ SingleFileReadFails
    \/ SingleFileHighlight
    \/ SingleFileFallback
    \/ SingleFileCleanup
    \/ SingleFileReturns
    \/ ReadFails
    \/ InnerHighlightOld
    \/ InnerHighlightNew
    \/ DoFileDiffingFails
    \/ DoFileDiffing
    \/ CleanupNew
    \/ InnerReturns
    \/ FindSyntaxFails
    \/ FindSyntax
    \/ LinesNext
    \/ LinesEnd
    \/ ParseLineFails
    \/ ParseLine
    \/ HighlightToken
    \/ TokensEnd
    \/ CleanupSort
    \/ CleanupSweep
    \/ CleanupFinish

SpecFileDiff == InitFileDiff /\ [][NextFileDiff]_vars

----------------------------------------------------------------------------
(* Properties of calculate_file_diff                                       *)

FileDiffDone == fpc = "done"

\* C12: calculate_file_diff always returns renderable output: for any old
\* and new paths and contents (a new path without an extension and content
\* that is not valid UTF-8 included) it returns a FileDiff, never an error.
C12_AlwaysReturnsFileDiff ==
    FileDiffDone => fd_result = "ok"

IsHighlight(f) == f.kind = "SetHighlight"
StyleKinds == {"SetBold", "SetItalic", "SetUnderline", "SetColor"}
IsStyle(f) == f.kind \in StyleKinds

\* fs is what the single-file highlight pass returns for the text t: the
\* text with the events of the highlighting pass, or the text alone when
\* that pass failed; no SetHighlight event
IsSingleFileHighlight(fs, t) ==
    /\ hl_src = t
    /\ ConcatText(fs) = t
    /\ SelectSeq(fs, IsHighlight) = <<>>
    /\ SelectSeq(fs, IsEvent)
          = IF "highlight" \in failed THEN <<>> ELSE SortByOffset(commands)

\* C13: in the FileDiff calculate_file_diff returns, when the old file does
\* not exist the old side is empty and the new side is the single-file
\* highlight of the new file, with no SetHighlight event; when the new file
\* does not exist the new side is empty and the old side is the
\* single-file highlight of the old file.
C13_MissingSideIsEmpty ==
    (FileDiffDone /\ fd_result = "ok") =>
        /\ ~old_file.exists =>
              /\ file_diff.old = <<>>
              /\ IsSingleFileHighlight(file_diff.new, new_file.text)
        /\ (old_file.exists /\ ~new_file.exists) =>
              /\ file_diff.new = <<>>
              /\ IsSingleFileHighlight(file_diff.old, old_file.text)

C13_Witness ==
    /\ FileDiffDone
    /\ fd_result = "ok"
    /\ ~old_file.exists
    /\ file_diff.old = <<>>
    /\ Len(new_file.text) = 2
    /\ \E k \in 1..Len(file_diff.new) : file_diff.new[k].kind = "SetBold"

\* C14: the passes of calculate_file_diff_inner are independently
\* best-effort: when the highlighting pass fails on a side (no syntax, or a
\* line that fails to parse anywhere in the text) the cleaned output of
\* that side has no style event, the highlighting of the other side still
\* contributes its events, and the function returns Ok.
C14_FailedPassLeavesNoEvents ==
    (FileDiffDone /\ new_extension.some /\ ~OneMissing
        /\ old_file.readable /\ new_file.readable) =>
        /\ fd_result = "ok"
        /\ "highlight_old" \in failed => SelectSeq(file_diff.old, IsStyle) = <<>>
        /\ "highlight_new" \in failed => SelectSeq(file_diff.new, IsStyle) = <<>>
        /\ "highlight_new" \notin failed =>
              SelectSeq(file_diff.new, IsStyle) = SortByOffset(commands)

----------------------------------------------------------------------------
(* The seek of walk_tree                                                   *)

\* C22: for every File entry whose decimal offset parses, the decoder seeks
\* to the exact value base + offset (and reads size bytes from there) or
\* fails; the sum never wraps around to a smaller stream position.
C22_SeekIsExactOrFails ==
    [][(TopIsFile /\ ParseUsize(Head(walk_stack).entry.offset) # -1) =>
          \/ asar_result' # "none"
          \/ rpos' = base + ParseUsize(Head(walk_stack).entry.offset)
                          + Head(walk_stack).entry.size]_vars

----------------------------------------------------------------------------
(* parse_extensions_from_log                                               *)

MaxLogLines == 5    \* lines in a log

\* a log line by what the loop body makes of it: "Invalid" has no space
\* after the timestamp, "Header" starts with "## " and carries the id, the
\* next three match one of the regexes and carry the captured group
LogLine(k, v) == [kind |-> k, val |-> v]

LogLines ==
    {LogLine("Invalid", <<>>), LogLine("Other", <<>>),
     LogLine("Header", <<"a">>), LogLine("Header", <<"b">>),
     LogLine("Repository", <<"r">>), LogLine("OldCommit", <<"o">>),
     LogLine("NewCommit", <<"n">>)}

Logs == UNION {[1..n -> LogLines] : n \in 0..MaxLogLines}

ModifiedExtension(id, repository, old_commit, new_commit) ==
    [id |-> id, repository |-> repository, old_commit |-> old_commit,
     new_commit |-> new_commit]

InitLog ==
    /\ IdleCleanup
    /\ IdleApp
    /\ IdleTree
    /\ IdleAsar
    /\ IdleHighlight
    /\ IdleStructural
    /\ IdleFileDiff
    /\ log \in Logs
    /\ line_no = 1
    /\ ext_id = None
    /\ ext_repository = None
    /\ ext_old_commit = None
    /\ extensions = <<>>
    /\ pushed_at = <<>>
    /\ log_result = "none"
    /\ lpc = "loop"

InLoop == lpc = "loop" /\ line_no <= Len(log)

\* line 30: the line has no second field
LogLineInvalid ==
    /\ InLoop
    /\ log[line_no].kind = "Invalid"
    /\ log_result' = "err"
    /\ lpc' = "done"
    /\ UNCHANGED <<log, line_no, ext_id, ext_repository, ext_old_commit, extensions,
                   pushed_at, notLog>>

\* lines 32-35
LogHeader ==
    /\ InLoop
    /\ log[line_no].kind = "Header"
    /\ ext_id' = Some(log[line_no].val)
    /\ line_no' = line_no + 1
    /\ UNCHANGED <<log, ext_repository, ext_old_commit, extensions, pushed_at,
                   log_result, lpc, notLog>>

\* lines 36-39
LogRepository ==
    /\ InLoop
    /\ log[line_no].kind = "Repository"
    /\ ext_id.some
    /\ ext_repository' = Some(log[line_no].val)
    /\ line_no' = line_no + 1
    /\ UNCHANGED <<log, ext_id, ext_old_commit, extensions, pushed_at, log_result,
                   lpc, notLog>>

\* lines 40-42
LogOldCommit ==
    /\ InLoop
    /\ log[line_no].kind = "OldCommit"
    /\ ext_id.some
    /\ ext_old_commit' = Some(log[line_no].val)
    /\ line_no' = line_no + 1
    /\ UNCHANGED <<log, ext_id, ext_repository, extensions, pushed_at, log_result,
                   lpc, notLog>>

\* lines 43-56
LogNewCommit ==
    /\ InLoop
    /\ log[line_no].kind = "NewCommit"
    /\ ext_id.some
    /\ ext_repository.some /\ ext_old_commit.some
    /\ extensions' = Append(extensions,
                        ModifiedExtension(ext_id.val, ext_repository.val,
                                          ext_old_commit.val, log[line_no].val))
    /\ pushed_at' = Append(pushed_at, line_no)
    /\ ext_id' = None
    /\ line_no' = line_no + 1
    /\ UNCHANGED <<log, ext_repository, ext_old_commit, log_result, lpc, notLog>>

\* lines 47-52: "Repository is out of order" / "Old commit is out of order"
LogNewCommitOutOfOrder ==
    /\ InLoop
    /\ log[line_no].kind = "NewCommit"
    /\ ext_id.some
    /\ ~ext_repository.some \/ ~ext_old_commit.some
    /\ log_result' = "err"
    /\ lpc' = "done"
    /\ UNCHANGED <<log, line_no, ext_id, ext_repository, ext_old_commit, extensions,
                   pushed_at, notLog>>

\* no branch of lines 32-58 applies to the line
LogSkip ==
    /\ InLoop
    /\ \/ log[line_no].kind = "Other"
       \/ log[line_no].kind \in {"Repository", "OldCommit", "NewCommit"} /\ ~ext_id.some
    /\ line_no' = line_no + 1
    /\ UNCHANGED <<log, ext_id, ext_repository, ext_old_commit, extensions,
                   pushed_at, log_result, lpc, notLog>>

\* line 61
LogEnd ==
    /\ lpc = "loop"
    /\ line_no > Len(log)
    /\ log_result' = "ok"
    /\ lpc' = "done"
    /\ UNCHANGED <<log, line_no, ext_id, ext_repository, ext_old_commit, extensions,
                   pushed_at, notLog>>

NextLog ==
    \/ LogLineInvalid
    \/ LogHeader
    \/ LogRepository
    \/ LogOldCommit
    \/ LogNewCommit
    \/ LogNewCommitOutOfOrder
    \/ LogSkip
    \/ LogEnd

SpecLog == InitLog /\ [][NextLog]_vars

\* the number of the last "## <id>" line before line n, 0 if there is none
HeaderBefore(n) ==
    LET hs == {j \in 1..(n - 1) : log[j].kind = "Header"}
    IN  IF hs = {} THEN 0 ELSE CHOOSE j \in hs : \A i \in hs : i <= j

\* C21: each ModifiedExtension takes its repository and its old commit
\* from lines between its own "## <id>" line and its "New commit" line; a
\* repository or old commit captured in an earlier section is never reused.
C21_FieldsFromOwnSection ==
    \A k \in 1..Len(extensions) :
        LET n == pushed_at[k]
            own == (HeaderBefore(n) + 1)..(n - 1)
        IN  /\ \E j \in own :
                  log[j] = LogLine("Repository", extensions[k].repository)
            /\ \E j \in own :
                  log[j] = LogLine("OldCommit", extensions[k].old_commit)

----------------------------------------------------------------------------
(* The UI frames and the logic thread                                      *)

MaxCommands == 3    \* commands the UI sends in a run

ExtensionId == <<"a">>

\* the extensions of a PullRequestUpdate, by id
ExtensionLists == {<<>>, <<ExtensionId>>}

\* the LogicResponse variant that answers a LogicCommand, logic/mod.rs 66-85
ResponseKind(k) ==
    CASE k = "GetPullRequest" -> "PullRequest"
      [] k = "DownloadExtension" -> "ExtensionDownloadComplete"
      [] k = "DiffFile" -> "FileDiff"

\* a LogicResponse carrying the LogicResult res of the command numbered n
Response(k, ok, v, n) == [kind |-> k, ok |-> ok, val |-> v, seq |-> n]

\* AsyncState::set, state.rs 32-45
Set(result) ==
    IF result.ok THEN AsyncState(Some(result.val), FALSE, FALSE)
    ELSE AsyncState(None, FALSE, TRUE)

\* AsyncState::start, state.rs 47-49
Start(a) == [a EXCEPT !.working = TRUE]

\* AsyncState::clear, state.rs 51-55
Clear(a) == AsyncState(None, FALSE, FALSE)

\* one iteration of the loop of handle_messages, ui/mod.rs 34-44
HandleMessage(st, msg) ==
    CASE msg.kind = "PullRequest" ->
            [st EXCEPT !.pull_request_update = Set(msg)]
      [] msg.kind = "ExtensionDownloadComplete" ->
            [st EXCEPT !.diffed_extension = Set(msg)]
      [] msg.kind = "FileDiff" ->
            [st EXCEPT !.diff = IF msg.ok THEN Some(msg.val) ELSE None]

RECURSIVE HandleMessages(_, _)
\* handle_messages, ui/mod.rs 32-46: every response in the channel
HandleMessages(st, msgs) ==
    IF msgs = <<>> THEN st
    ELSE HandleMessages(HandleMessage(st, Head(msgs)), Tail(msgs))

\* the Fetch button is enabled whenever an id is entered
FetchEnabledWhileWorking(st) == st.pull_request_id > 0

\* ui/mod.rs 53-54
FetchEnabled(st) == st.pull_request_id > 0 /\ ~st.pull_request_update.working

\* ui/mod.rs 91-92
DownloadEnabled(st) == st.selected_extension.some /\ ~st.diffed_extension.working

\* the extension list of the update holds the id, ui/mod.rs 99
Found(exts, id) == \E i \in 1..Len(exts) : exts[i] = id

InitApp ==
    /\ IdleCleanup
    /\ IdleTree
    /\ IdleAsar
    /\ IdleHighlight
    /\ IdleStructural
    /\ IdleFileDiff
    /\ IdleLog
    /\ state = DefaultAppState
    /\ logic_rx = <<>>
    /\ main_rx = <<>>
    /\ thread = [pc |-> "build", command |-> NoCommand]
    /\ ui_alive = TRUE
    /\ sent = <<>>
    /\ handled = <<>>

\* the end of every frame, ui/mod.rs 202-209: st is the state the widgets
\* of the frame left
FrameEnds(st) ==
    /\ state' = HandleMessages(st, main_rx)
    /\ handled' = handled \o main_rx
    /\ main_rx' = <<>>

\* tx.send(command): the receiver is dropped when the logic thread ends
ReceiverAlive == thread.pc # "ended"

Send(k) ==
    /\ ReceiverAlive
    /\ Len(sent) < MaxCommands
    /\ logic_rx' = Append(logic_rx, Command(k, Len(sent) + 1))
    /\ sent' = Append(sent, k)

\* the sidebar view is drawn, ui/mod.rs 131
SidebarView == state.diffed_extension.value.some

\* a frame without input
Frame ==
    /\ ui_alive
    /\ FrameEnds(state)
    /\ UNCHANGED <<logic_rx, thread, ui_alive, sent, notApp>>

\* the DragValue of ui/mod.rs 51 is edited
FrameEditId ==
    /\ ui_alive
    /\ ~SidebarView
    /\ \E id \in {0, 1} :
          /\ id # state.pull_request_id
          /\ FrameEnds([state EXCEPT !.pull_request_id = id])
    /\ UNCHANGED <<logic_rx, thread, ui_alive, sent, notApp>>

\* Fetch is clicked, ui/mod.rs 56-65
FrameFetch ==
    /\ ui_alive
    /\ ~SidebarView
    /\ FetchEnabled(state)
    /\ Send("GetPullRequest")
    /\ FrameEnds([state EXCEPT
                     !.pull_request_update = Start(Clear(state.pull_request_update))])
    /\ UNCHANGED <<thread, ui_alive, notApp>>

\* an entry of the ComboBox is chosen, ui/mod.rs 81-89
FrameSelectExtension ==
    /\ ui_alive
    /\ ~SidebarView
    /\ state.pull_request_update.value.some
    /\ \E i \in 1..Len(state.pull_request_update.value.val) :
          /\ state.selected_extension # Some(state.pull_request_update.value.val[i])
          /\ FrameEnds([state EXCEPT !.selected_extension =
                           Some(state.pull_request_update.value.val[i])])
    /\ UNCHANGED <<logic_rx, thread, ui_alive, sent, notApp>>

\* Download is clicked and the selected extension is in the update,
\* ui/mod.rs 94-110
FrameDownload ==
    /\ ui_alive
    /\ ~SidebarView
    /\ state.pull_request_update.value.some
    /\ DownloadEnabled(state)
    /\ Found(state.pull_request_update.value.val, state.selected_extension.val)
    /\ Send("DownloadExtension")
    /\ FrameEnds([state EXCEPT
                     !.diffed_extension = Start(Clear(state.diffed_extension))])
    /\ UNCHANGED <<thread, ui_alive, notApp>>

\* Reset is clicked, ui/mod.rs 138-140 and 202-204
FrameReset ==
    /\ ui_alive
    /\ SidebarView
    /\ FrameEnds([state EXCEPT !.diffed_extension = Clear(state.diffed_extension)])
    /\ UNCHANGED <<logic_rx, thread, ui_alive, sent, notApp>>

\* a file of the sidebar is chosen, ui/mod.rs 168-182
FrameSelectFile ==
    /\ ui_alive
    /\ SidebarView
    /\ Send("DiffFile")
    /\ FrameEnds(state)
    /\ UNCHANGED <<thread, ui_alive, notApp>>

\* a click that sends after the logic thread ended: send returns Err and
\* unwrap panics, ui/mod.rs 63, 106, 180
FrameSendPanics ==
    /\ ui_alive
    /\ ~ReceiverAlive
    /\ \/ ~SidebarView /\ FetchEnabled(state)
       \/ /\ ~SidebarView
          /\ state.pull_request_update.value.some
          /\ DownloadEnabled(state)
          /\ Found(state.pull_request_update.value.val, state.selected_extension.val)
       \/ SidebarView
    /\ ui_alive' = FALSE
    /\ UNCHANGED <<state, logic_rx, main_rx, thread, sent, handled, notApp>>

\* logic/mod.rs 62: build_octocrab returns Err (no GITHUB_TOKEN), the
\* thread logs it and ends, 95-97
BuildOctocrabFails ==
    /\ thread.pc = "build"
    /\ thread' = [thread EXCEPT !.pc = "ended"]
    /\ UNCHANGED <<state, logic_rx, main_rx, ui_alive, sent, handled, notApp>>

\* logic/mod.rs 62
BuildOctocrab ==
    /\ thread.pc = "build"
    /\ thread' = [thread EXCEPT !.pc = "recv"]
    /\ UNCHANGED <<state, logic_rx, main_rx, ui_alive, sent, handled, notApp>>

\* logic/mod.rs 65: rx.recv() returns a command
Recv ==
    /\ thread.pc = "recv"
    /\ logic_rx # <<>>
    /\ thread' = [pc |-> "run", command |-> Head(logic_rx)]
    /\ logic_rx' = Tail(logic_rx)
    /\ UNCHANGED <<state, main_rx, ui_alive, sent, handled, notApp>>

\* what an operation can return for a command
Results(k) ==
    IF k = "GetPullRequest"
    THEN {[ok |-> TRUE, val |-> v] : v \in ExtensionLists} \cup {[ok |-> FALSE, val |-> <<>>]}
    ELSE {[ok |-> b, val |-> <<>>] : b \in BOOLEAN}

\* logic/mod.rs 66-85: the operation returns, Ok or Err, and the result is
\* sent
Respond ==
    /\ thread.pc = "run"
    /\ \E res \in Results(thread.command.kind) :
          main_rx' = Append(main_rx,
                            Response(ResponseKind(thread.command.kind), res.ok,
                                     res.val, thread.command.seq))
    /\ thread' = [pc |-> "recv", command |-> NoCommand]
    /\ UNCHANGED <<state, logic_rx, ui_alive, sent, handled, notApp>>

\* logic/mod.rs 76: download_extension panics (parse_asar's overflowing sum
\* in a build with overflow checks, asar.rs 61; the unwrap of unflatten_tree,
\* diff.rs 117-118) and the thread unwinds
DownloadExtensionPanics ==
    /\ thread.pc = "run"
    /\ thread.command.kind = "DownloadExtension"
    /\ thread' = [thread EXCEPT !.pc = "ended"]
    /\ UNCHANGED <<state, logic_rx, main_rx, ui_alive, sent, handled, notApp>>

UiFrame ==
    \/ Frame
    \/ FrameEditId
    \/ FrameFetch
    \/ FrameSelectExtension
    \/ FrameDownload
    \/ FrameReset
    \/ FrameSelectFile
    \/ FrameSendPanics

LogicThread ==
    \/ BuildOctocrabFails
    \/ BuildOctocrab
    \/ Recv
    \/ Respond
    \/ DownloadExtensionPanics

NextApp == UiFrame \/ LogicThread

SpecApp == InitApp /\ [][NextApp]_vars

\* the logic thread keeps running while it can take a step, and the UI
\* repaints at least every 100 ms (ui/mod.rs 209), so a response in the
\* channel is handled by some frame
SpecAppFair == SpecApp /\ WF_vars(LogicThread) /\ WF_vars(Frame)

----------------------------------------------------------------------------
(* Properties of the UI and the logic thread                               *)

\* the commands of kind k sent and not yet answered: no response to them
\* has been taken by handle_messages
Outstanding(k) ==
    Cardinality({i \in 1..Len(sent) : sent[i] = k})
    - Cardinality({i \in 1..Len(handled) : handled[i].kind = ResponseKind(k)})

\* C23: under any interleaving of UI frames and logic-thread steps at most
\* one GetPullRequest and at most one DownloadExtension command is
\* outstanding, and the working flag of the matching AsyncState is true
\* exactly while such a command is outstanding.
C23_OneOutstandingAndWorking ==
    /\ Outstanding("GetPullRequest") <= 1
    /\ Outstanding("DownloadExtension") <= 1
    /\ state.pull_request_update.working <=> Outstanding("GetPullRequest") = 1
    /\ state.diffed_extension.working <=> Outstanding("DownloadExtension") = 1

C23_Witness ==
    /\ Outstanding("GetPullRequest") = 1
    /\ Outstanding("DownloadExtension") = 1
    /\ state.pull_request_update.working
    /\ state.diffed_extension.working
    /\ Len(handled) = 1

\* the responses taken so far answer the commands sent, one each, in the
\* order sent and with the matching kind
AnsweredInOrder ==
    /\ Len(handled) <= Len(sent)
    /\ \A i \in 1..Len(handled) :
          /\ handled[i].seq = i
          /\ handled[i].kind = ResponseKind(sent[i])

\* C24: with operations that terminate and a fair scheduler, every
\* LogicCommand the UI sends is eventually answered by exactly one
\* LogicResponse of the matching kind, the responses arrive in the order
\* the commands were sent, and an operation that returns an error is still
\* answered and does not stop the loop.
C24_EveryCommandAnswered ==
    /\ []AnsweredInOrder
    /\ \A n \in 1..MaxCommands : (Len(sent) >= n) ~> (Len(handled) >= n)

====
